---- MODULE Spec2Model ----
(***************************************************************************)
(* Gala seating: the seat allocation engine of src/app.py.                 *)
(*                                                                         *)
(* The durable state is the three tables of the database (Ticket,          *)
(* TableAssignment, BlockedTable); the per-client state is the Flask       *)
(* session.  Every route handler is one action, and `last' holds the       *)
(* handler and the response of the last request served.                    *)
(*                                                                         *)
(* The code takes no lock and opens no serializable transaction: where     *)
(* requests are served concurrently, the statements of one handler         *)
(* interleave with those of another.  The second half of the module splits *)
(* the handlers that write ticket numbers into their steps (the checks,    *)
(* the writes and the commit, the queries of get_table_status, the emit);  *)
(* `flight' holds the request each client has in progress.                 *)
(*                                                                         *)
(* Timestamps (used_at, assigned_at, blocked_at, created_at) are not       *)
(* modelled.  A Python value that is falsy (None, 0, "") is modelled by 0  *)
(* for a table number or an id and by "" for a string.                     *)
(***************************************************************************)
EXTENDS Integers, Sequences, FiniteSets, TLC

\* Configuration of src/app.py, scaled down (25 tables, 10 seats, 250 tickets
\* in the source).
TOTAL_TABLES == 2
SEATS_PER_TABLE == 2
TOTAL_TICKETS == 2
ADMIN_PASSWORD == "admin123"

\* Bounds of the model.
MaxBatch == 2
MaxId == 3
MaxStepId == 2
MaxSeen == 2

Sessions == {"s1", "s2"}
\* The sessions that send guest requests (validate, assign); the admin logs
\* in on s2.
Guests == {"s1"}
TicketNumbers == {"1", "2", "3"}
Reasons == {"VIP"}

\* Request inputs.  Strings are given as sent, before the handler's .strip();
\* 0 and "" stand for a missing field.
RawTickets == TicketNumbers \cup {" 1", ""}
TableInputs == 0..(TOTAL_TABLES + 1)
IdInputs == 0..MaxId

VARIABLES
    tickets,        \* Ticket table: ticket_number -> [full_name, is_used]
    assignments,    \* TableAssignment table: set of rows
    blocked,        \* BlockedTable table: table_number -> reason
    session,        \* Flask session of each client
    emitted,        \* payload of the last socketio.emit('table_update')
    last,           \* the last request served and its response
    flight          \* the request each client has in progress

vars == <<tickets, assignments, blocked, session, emitted, last, flight>>

----------------------------------------------------------------------------
\* Helpers

\* str.strip() on the request strings of the model.
Strip(s) ==
    CASE s = " 1" -> "1"
      [] s = " "  -> ""
      [] OTHER    -> s

\* str(i) for the ticket numbers reset_tickets creates.
Str(i) ==
    CASE i = 1 -> "1"
      [] i = 2 -> "2"
      [] i = 3 -> "3"
      [] OTHER -> "4"

\* f"Guest {i}"
GuestName(i) ==
    CASE i = 1 -> "Guest 1"
      [] i = 2 -> "Guest 2"
      [] i = 3 -> "Guest 3"
      [] OTHER -> "Guest 4"

\* int(s) in add_ticket_api: the number, or -1 where int() raises ValueError.
IntOf(s) ==
    CASE s = "0" -> 0
      [] s = "1" -> 1
      [] s = "2" -> 2
      [] s = "3" -> 3
      [] OTHER   -> -1

SeqsUpTo(S, n) == UNION {[1..k -> S] : k \in 0..n}

Max(S) == CHOOSE x \in S : \A y \in S : y <= x

\* TableAssignment.query.filter_by(table_number=t).count()
Occupancy(asg, t) == Cardinality({a \in asg : a.table_number = t})

\* Bound with a query that finds no row.
NeverBound(asg, n) == FALSE

\* TableAssignment.query.filter_by(ticket_number=n).first() is not None
Bound(asg, n) == \E a \in asg : a.ticket_number = n

\* The integer primary key SQLite gives the next row: one more than the
\* largest id in use.
NextId(asg) == IF asg = {} THEN 1 ELSE Max({a.id : a \in asg}) + 1

EmptySession == [guests |-> FALSE, ticket_numbers |-> {}, admin_logged_in |-> FALSE]

\* The committed rows of the three tables.
Db(tk, asg, blk) == [tickets |-> tk, assignments |-> asg, blocked |-> blk]

\* Outcome with a table_update emitted after a failure too.
OutcomeEmitting(result, tk, asg, blk) ==
    [result |-> result, at |-> 0, db |-> Db(tk, asg, blk), emit |-> TRUE]

\* What a handler does: its response, the rows it leaves committed, and
\* whether it emits a table_update.
Outcome(result, tk, asg, blk) ==
    [result |-> result, at |-> 0, db |-> Db(tk, asg, blk), emit |-> result = "ok"]

----------------------------------------------------------------------------
\* get_table_status

Occupants(asg, t) ==
    {[ticket |-> a.ticket_number, name |-> a.full_name] :
        a \in {x \in asg : x.table_number = t}}

\* TableStatus with is_full computed as occupied = SEATS_PER_TABLE.
TableStatusExactlyFull(asg, blk, t) ==
    [number       |-> t,
     capacity     |-> SEATS_PER_TABLE,
     occupied     |-> Occupancy(asg, t),
     available    |-> SEATS_PER_TABLE - Occupancy(asg, t),
     is_full      |-> Occupancy(asg, t) = SEATS_PER_TABLE,
     is_blocked   |-> t \in DOMAIN blk,
     block_reason |-> IF t \in DOMAIN blk THEN blk[t] ELSE "",
     occupants    |-> Occupants(asg, t)]

TableStatus(asg, blk, t) ==
    [number       |-> t,
     capacity     |-> SEATS_PER_TABLE,
     occupied     |-> Occupancy(asg, t),
     available    |-> SEATS_PER_TABLE - Occupancy(asg, t),
     is_full      |-> Occupancy(asg, t) >= SEATS_PER_TABLE,
     is_blocked   |-> t \in DOMAIN blk,
     block_reason |-> IF t \in DOMAIN blk THEN blk[t] ELSE "",
     occupants    |-> Occupants(asg, t)]

get_table_status(asg, blk) == [t \in 1..TOTAL_TABLES |-> TableStatus(asg, blk, t)]

----------------------------------------------------------------------------
\* `last' is the last request served: for the handlers named in log, the
\* handler, its response and (for a rejected batch) the position of the entry
\* that was rejected.
Other == [op |-> "other", result |-> "", at |-> 0]

Served(log, op, result, at) ==
    last' = IF op \in log THEN [op |-> op, result |-> result, at |-> at] ELSE Other

\* A request in progress: the step it is at, the handler, the entries and the
\* row it loaded, and for the broadcast the rows get_table_status has read so
\* far (blk, tables) with the states committed since the request's own commit
\* (seen).
NoRow == [id |-> 0, ticket_number |-> "", full_name |-> "", table_number |-> 0]

Idle ==
    [pc |-> "idle", op |-> "", entries |-> <<>>, row |-> NoRow,
     blk |-> <<>>, tables |-> <<>>, seen |-> {}]

Snapshot(db) == get_table_status(db.assignments, db.blocked)

Computing(f) == f.pc \in {"committed", "reading"}

\* A commit is seen by every request that is computing its broadcast.
Observe(db) ==
    [s \in DOMAIN flight |->
        IF Computing(flight[s])
        THEN [flight[s] EXCEPT !.seen = @ \cup {Snapshot(db)}]
        ELSE flight[s]]

\* The commits that a request computing its broadcast sees stay within the
\* model's bound.
Followed(db) ==
    \A s \in DOMAIN flight :
        Computing(flight[s]) => Cardinality(flight[s].seen \cup {Snapshot(db)}) <= MaxSeen

\* db.session.commit() (or the rollback) of a handler's outcome.
Commits(out) ==
    /\ Followed(out.db)
    /\ tickets' = out.db.tickets
    /\ assignments' = out.db.assignments
    /\ blocked' = out.db.blocked

\* A handler run in one piece: the commit of its outcome and the broadcast
\* that follows a success,
\* socketio.emit('table_update', {'tables': get_table_status()}).
Apply(log, op, out) ==
    /\ Served(log, op, out.result, out.at)
    /\ Commits(out)
    /\ emitted' = IF out.emit THEN Snapshot(out.db) ELSE emitted
    /\ flight' = Observe(out.db)

Unchanged(result) == Outcome(result, tickets, assignments, blocked)

\* index(): session.clear()
Index(log, s) ==
    /\ Served(log, "index", "ok", 0)
    /\ session' = [session EXCEPT ![s] = EmptySession]
    /\ UNCHANGED <<tickets, assignments, blocked, emitted, flight>>

\* admin_login(), POST
AdminLoginResult(password) ==
    IF password = ADMIN_PASSWORD THEN "ok" ELSE "InvalidPassword"

AdminLogin(log, s, password) ==
    /\ Served(log, "admin_login", AdminLoginResult(password), 0)
    /\ session' = IF AdminLoginResult(password) = "ok"
                  THEN [session EXCEPT ![s].admin_logged_in = TRUE]
                  ELSE session
    /\ UNCHANGED <<tickets, assignments, blocked, emitted, flight>>

\* admin_logout()
AdminLogout(log, s) ==
    /\ Served(log, "admin_logout", "ok", 0)
    /\ session' = [session EXCEPT ![s].admin_logged_in = FALSE]
    /\ UNCHANGED <<tickets, assignments, blocked, emitted, flight>>

----------------------------------------------------------------------------
\* validate_tickets and validate_tickets_api

\* InSeq for a list that is never filled.
NeverInSeq(x, sq) == FALSE

\* ticket_number in ticket_numbers_in_request
InSeq(x, sq) == \E k \in 1..Len(sq) : sq[k] = x

RECURSIVE ValidateFrom(_, _, _, _, _)
ValidateFrom(tk, asg, data, i, seen) ==
    IF i > Len(data)
    THEN [ok |-> TRUE, error |-> "", numbers |-> seen]
    ELSE LET ticket_number == Strip(data[i].ticket_number)
             full_name == Strip(data[i].full_name)
             Fail(e) == [ok |-> FALSE, error |-> e, numbers |-> <<>>]
         IN  IF ticket_number = "" \/ full_name = ""
             THEN Fail("EmptyField")
             ELSE IF InSeq(ticket_number, seen)
             THEN Fail("DuplicateInRequest")
             ELSE IF ticket_number \notin DOMAIN tk
             THEN Fail("NoSuchTicket")
             ELSE IF tk[ticket_number].is_used
             THEN (IF Bound(asg, ticket_number)
                   THEN Fail("AlreadyAssigned")
                   ELSE Fail("AlreadyUsed"))
             ELSE ValidateFrom(tk, asg, data, i + 1, Append(seen, ticket_number))

validate_tickets(tk, asg, data) == ValidateFrom(tk, asg, data, 1, <<>>)

ValidateResult(data) ==
    IF data = <<>> THEN "NoTickets"
    ELSE IF ~validate_tickets(tickets, assignments, data).ok
    THEN validate_tickets(tickets, assignments, data).error
    ELSE "ok"

\* ValidateTickets with the accepted tickets marked used at once.
ValidateTicketsConsuming(log, s, data) ==
    LET numbers == validate_tickets(tickets, assignments, data).numbers
    IN  /\ Served(log, "validate", ValidateResult(data), 0)
        /\ session' = IF ValidateResult(data) = "ok"
                      THEN [session EXCEPT
                              ![s].guests = TRUE,
                              ![s].ticket_numbers =
                                  {numbers[k] : k \in 1..Len(numbers)}]
                      ELSE session
        /\ tickets' = IF ValidateResult(data) = "ok"
                      THEN [n \in DOMAIN tickets |->
                              IF InSeq(n, numbers)
                              THEN [tickets[n] EXCEPT !.is_used = TRUE]
                              ELSE tickets[n]]
                      ELSE tickets
        /\ UNCHANGED <<assignments, blocked, emitted, flight>>

\* session['ticket_numbers'] is only ever tested for membership: the list is
\* kept as the set of its elements.
ValidateTickets(log, s, data) ==
    LET numbers == validate_tickets(tickets, assignments, data).numbers
    IN  /\ Served(log, "validate", ValidateResult(data), 0)
        /\ session' = IF ValidateResult(data) = "ok"
                      THEN [session EXCEPT
                              ![s].guests = TRUE,
                              ![s].ticket_numbers =
                                  {numbers[k] : k \in 1..Len(numbers)}]
                      ELSE session
        /\ UNCHANGED <<tickets, assignments, blocked, emitted, flight>>

----------------------------------------------------------------------------
\* assign_seats_api

\* The first loop: every entry is checked against the committed rows.
\* CheckAssignments without the blocked-table check.
RECURSIVE CheckAssignmentsNoBlock(_, _, _, _, _)
CheckAssignmentsNoBlock(sess, asg, blk, entries, i) ==
    IF i > Len(entries)
    THEN [result |-> "ok", at |-> 0]
    ELSE IF entries[i].ticket_number \notin sess.ticket_numbers
    THEN [result |-> "InvalidTicket", at |-> i]
    ELSE IF Occupancy(asg, entries[i].table_number) >= SEATS_PER_TABLE
    THEN [result |-> "TableFull", at |-> i]
    ELSE CheckAssignmentsNoBlock(sess, asg, blk, entries, i + 1)

\* CheckAssignments without the check against the session's ticket numbers.
RECURSIVE CheckAssignmentsNoSession(_, _, _, _, _)
CheckAssignmentsNoSession(sess, asg, blk, entries, i) ==
    IF i > Len(entries)
    THEN [result |-> "ok", at |-> 0]
    ELSE IF Occupancy(asg, entries[i].table_number) >= SEATS_PER_TABLE
    THEN [result |-> "TableFull", at |-> i]
    ELSE IF entries[i].table_number \in DOMAIN blk
    THEN [result |-> "Blocked", at |-> i]
    ELSE CheckAssignmentsNoSession(sess, asg, blk, entries, i + 1)

RECURSIVE CheckAssignments(_, _, _, _, _)
CheckAssignments(sess, asg, blk, entries, i) ==
    IF i > Len(entries)
    THEN [result |-> "ok", at |-> 0]
    ELSE IF entries[i].ticket_number \notin sess.ticket_numbers
    THEN [result |-> "InvalidTicket", at |-> i]
    ELSE IF Occupancy(asg, entries[i].table_number) >= SEATS_PER_TABLE
    THEN [result |-> "TableFull", at |-> i]
    ELSE IF entries[i].table_number \in DOMAIN blk
    THEN [result |-> "Blocked", at |-> i]
    ELSE CheckAssignments(sess, asg, blk, entries, i + 1)

\* UniqueTicket without the constraint.
NoUniqueTicket(asg, id, n) == TRUE

\* The unique constraint on TableAssignment.ticket_number: the INSERT (or
\* UPDATE) of a row raises IntegrityError when another row holds the number.
UniqueTicket(asg, id, n) ==
    \A a \in asg : a.id # id => a.ticket_number # n

\* MarkTicket without the change of is_used.
KeepTicket(tk, n, used) == tk

\* Ticket.query.filter_by(ticket_number=n).first(); if ticket: ticket.is_used = used
MarkTicket(tk, n, used) ==
    IF n \in DOMAIN tk THEN [tk EXCEPT ![n].is_used = used] ELSE tk

\* The second loop: each row is added and flushed, its ticket marked used.
\* An exception ends the loop with the rows written so far.
RECURSIVE CreateAssignments(_, _, _, _)
CreateAssignments(tk, asg, entries, i) ==
    IF i > Len(entries)
    THEN [raised |-> FALSE, at |-> 0, tickets |-> tk, assignments |-> asg]
    ELSE LET e == entries[i]
             id == NextId(asg)
             row == [id |-> id, ticket_number |-> e.ticket_number,
                     full_name |-> e.full_name, table_number |-> e.table_number]
         IN  IF ~UniqueTicket(asg, id, e.ticket_number)
             THEN [raised |-> TRUE, at |-> i, tickets |-> tk, assignments |-> asg]
             ELSE CreateAssignments(MarkTicket(tk, e.ticket_number, TRUE),
                                    asg \cup {row}, entries, i + 1)

\* CommitOrRollback without the rollback: the rows written before the
\* exception stay.
CommitWithoutRollback(work, tk, asg) ==
    [tickets |-> work.tickets, assignments |-> work.assignments]

\* db.session.commit() after the loop, db.session.rollback() in the except
\* branch: the rows a transaction leaves committed.
CommitOrRollback(work, tk, asg) ==
    IF work.raised
    THEN [tickets |-> tk, assignments |-> asg]
    ELSE [tickets |-> work.tickets, assignments |-> work.assignments]

\* The handler run against the committed rows (tk, asg, blk).
assign_check(sess, asg, blk, entries) ==
    IF ~sess.guests THEN [result |-> "SessionExpired", at |-> 0]
    ELSE IF entries = <<>> THEN [result |-> "NoAssignments", at |-> 0]
    ELSE CheckAssignments(sess, asg, blk, entries, 1)

\* The statements after the checks, run against the committed rows.
assign_write(tk, asg, blk, entries) ==
    LET work == CreateAssignments(tk, asg, entries, 1)
        rows == CommitOrRollback(work, tk, asg)
    IN  IF work.raised
        THEN [Outcome("Exception", rows.tickets, rows.assignments, blk)
                 EXCEPT !.at = work.at]
        ELSE Outcome("ok", rows.tickets, rows.assignments, blk)

assign_seats(sess, tk, asg, blk, entries) ==
    LET check == assign_check(sess, asg, blk, entries)
    IN  IF check.result # "ok"
        THEN [Outcome(check.result, tk, asg, blk) EXCEPT !.at = check.at]
        ELSE assign_write(tk, asg, blk, entries)

AssignOutcome(s, entries) ==
    assign_seats(session[s], tickets, assignments, blocked, entries)

\* Ids stay within the model's bound.
IdsUpTo(out, n) == \A a \in out.db.assignments : a.id <= n

IdsWithin(out) == IdsUpTo(out, MaxId)

AssignSeats(log, s, entries) ==
    \E out \in {AssignOutcome(s, entries)} :
        /\ IdsWithin(out)
        /\ Apply(log, "assign", out)
        /\ UNCHANGED session

----------------------------------------------------------------------------
\* Admin routes.  require_admin runs the handler only for a session with
\* admin_logged_in and otherwise redirects to the login page.

\* require_admin with every caller let through.
require_admin_open(s) == TRUE

require_admin(s) == session[s].admin_logged_in

AdminRoutes ==
    {"delete", "block", "unblock", "reset_demo", "reset_tickets",
     "manual_assign", "edit", "add_ticket"}

AdminRedirect(log, s, route) ==
    /\ ~require_admin(s)
    /\ Served(log, route, "Redirect", 0)
    /\ UNCHANGED <<tickets, assignments, blocked, session, emitted, flight>>

\* AddTicketRow with the ticket created unused.
AddTicketRowUnused(tk, n, name, used) ==
    [x \in DOMAIN tk \cup {n} |->
        IF x = n THEN [full_name |-> name, is_used |-> FALSE] ELSE tk[x]]

\* db.session.add(Ticket(ticket_number=n, full_name=name, is_used=used))
AddTicketRow(tk, n, name, used) ==
    [x \in DOMAIN tk \cup {n} |->
        IF x = n THEN [full_name |-> name, is_used |-> used] ELSE tk[x]]

\* delete_any_assignment_api
DeleteOutcome(assignment_id) ==
    LET found == {a \in assignments : a.id = assignment_id}
        row == CHOOSE a \in found : TRUE
    IN  IF assignment_id = 0 THEN Unchanged("IdRequired")
        ELSE IF found = {} THEN Unchanged("NotFound")
        ELSE Outcome("ok", MarkTicket(tickets, row.ticket_number, FALSE),
                     assignments \ {row}, blocked)

DeleteAnyAssignment(log, s, assignment_id) ==
    /\ require_admin(s)
    /\ \E out \in {DeleteOutcome(assignment_id)} :
          /\ Apply(log, "delete", out)
    /\ UNCHANGED session

\* block_table_api
BlockOutcome(table_number, reason) ==
    IF table_number = 0 \/ table_number < 1 \/ table_number > TOTAL_TABLES
    THEN Unchanged("InvalidTable")
    ELSE IF table_number \in DOMAIN blocked
    THEN Unchanged("AlreadyBlocked")
    ELSE Outcome("ok", tickets, assignments,
                 [t \in DOMAIN blocked \cup {table_number} |->
                     IF t = table_number THEN reason ELSE blocked[t]])

BlockTable(log, s, table_number, reason) ==
    /\ require_admin(s)
    /\ \E out \in {BlockOutcome(table_number, reason)} :
          /\ Apply(log, "block", out)
    /\ UNCHANGED session

\* unblock_table with every block deleted.
unblock_table_clearing(tk, asg, blk, table_number) ==
    IF table_number = 0 THEN Outcome("TableRequired", tk, asg, blk)
    ELSE IF table_number \notin DOMAIN blk THEN Outcome("NotBlocked", tk, asg, blk)
    ELSE Outcome("ok", tk, asg, <<>>)

\* unblock_table without the check that the table is blocked.
unblock_table_unchecked(tk, asg, blk, table_number) ==
    IF table_number = 0 THEN Outcome("TableRequired", tk, asg, blk)
    ELSE Outcome("ok", tk, asg, [t \in DOMAIN blk \ {table_number} |-> blk[t]])

\* unblock_table_api
unblock_table(tk, asg, blk, table_number) ==
    IF table_number = 0 THEN Outcome("TableRequired", tk, asg, blk)
    ELSE IF table_number \notin DOMAIN blk THEN Outcome("NotBlocked", tk, asg, blk)
    ELSE Outcome("ok", tk, asg, [t \in DOMAIN blk \ {table_number} |-> blk[t]])

UnblockOutcome(table_number) ==
    unblock_table(tickets, assignments, blocked, table_number)

UnblockTable(log, s, table_number) ==
    /\ require_admin(s)
    /\ \E out \in {UnblockOutcome(table_number)} :
          /\ Apply(log, "unblock", out)
    /\ UNCHANGED session

\* reset_demo
ResetDemoOutcome ==
    Outcome("ok",
            [n \in DOMAIN tickets |-> [tickets[n] EXCEPT !.is_used = FALSE]],
            {}, <<>>)

\* ResetDemo without the delete of the blocked tables.
ResetDemoKeepingBlocks(log, s) ==
    /\ require_admin(s)
    /\ \E out \in {[ResetDemoOutcome EXCEPT !.db.blocked = blocked]} :
          /\ Apply(log, "reset_demo", out)
    /\ UNCHANGED session

ResetDemo(log, s) ==
    /\ require_admin(s)
    /\ \E out \in {ResetDemoOutcome} :
          /\ Apply(log, "reset_demo", out)
    /\ UNCHANGED session

\* reset_tickets
ResetTicketsOutcome ==
    Outcome("ok",
            [n \in {Str(i) : i \in 1..TOTAL_TICKETS} |->
                [full_name |-> GuestName(IntOf(n)), is_used |-> FALSE]],
            {}, <<>>)

ResetTickets(log, s) ==
    /\ require_admin(s)
    /\ \E out \in {ResetTicketsOutcome} :
          /\ Apply(log, "reset_tickets", out)
    /\ UNCHANGED session

\* manual_assign with the block check of assign_seats_api added.
manual_assign_checking_block(tk, asg, blk, table_number, ticket_number, full_name) ==
    LET row == [id |-> NextId(asg), ticket_number |-> ticket_number,
                full_name |-> full_name, table_number |-> table_number]
    IN  IF table_number = 0 \/ ticket_number = "" \/ full_name = ""
        THEN Outcome("MissingFields", tk, asg, blk)
        ELSE IF table_number < 1 \/ table_number > TOTAL_TABLES
        THEN Outcome("InvalidTable", tk, asg, blk)
        ELSE IF Bound(asg, ticket_number)
        THEN Outcome("AlreadyAssigned", tk, asg, blk)
        ELSE IF Occupancy(asg, table_number) >= SEATS_PER_TABLE
        THEN Outcome("TableFull", tk, asg, blk)
        ELSE IF table_number \in DOMAIN blk
        THEN Outcome("Blocked", tk, asg, blk)
        ELSE Outcome("ok",
                     IF ticket_number \in DOMAIN tk
                     THEN MarkTicket(tk, ticket_number, TRUE)
                     ELSE AddTicketRow(tk, ticket_number, full_name, TRUE),
                     asg \cup {row}, blk)

\* manual_assign_api
manual_assign(tk, asg, blk, table_number, ticket_number, full_name) ==
    LET current_count == Occupancy(asg, table_number)
        row == [id |-> NextId(asg), ticket_number |-> ticket_number,
                full_name |-> full_name, table_number |-> table_number]
    IN  IF table_number = 0 \/ ticket_number = "" \/ full_name = ""
        THEN Outcome("MissingFields", tk, asg, blk)
        ELSE IF table_number < 1 \/ table_number > TOTAL_TABLES
        THEN Outcome("InvalidTable", tk, asg, blk)
        ELSE IF Bound(asg, ticket_number)
        THEN Outcome("AlreadyAssigned", tk, asg, blk)
        ELSE IF current_count >= SEATS_PER_TABLE
        THEN Outcome("TableFull", tk, asg, blk)
        ELSE Outcome("ok",
                     IF ticket_number \in DOMAIN tk
                     THEN MarkTicket(tk, ticket_number, TRUE)
                     ELSE AddTicketRow(tk, ticket_number, full_name, TRUE),
                     asg \cup {row}, blk)

ManualOutcome(table_number, ticket_number, full_name) ==
    manual_assign(tickets, assignments, blocked, table_number, ticket_number, full_name)

ManualAssign(log, s, table_number, ticket_number, full_name) ==
    /\ require_admin(s)
    /\ \E out \in {ManualOutcome(table_number, ticket_number, full_name)} :
          /\ IdsWithin(out)
          /\ Apply(log, "manual_assign", out)
    /\ UNCHANGED session

\* edit_assignment with the changes made before the capacity check committed
\* when the check fails.
edit_assignment_keeping_pending(tk, asg, blk, assignment_id, raw_ticket, raw_name, new_table_number) ==
    LET new_ticket_number == Strip(raw_ticket)
        new_full_name == Strip(raw_name)
        found == {a \in asg : a.id = assignment_id}
        assignment == CHOOSE a \in found : TRUE
        old_ticket_number == assignment.ticket_number
        old_table_number == assignment.table_number
        changeTicket == new_ticket_number # "" /\ new_ticket_number # old_ticket_number
        changeTable == new_table_number # 0 /\ new_table_number # old_table_number
        freed == MarkTicket(tk, old_ticket_number, FALSE)
        pendingTickets ==
            IF ~changeTicket THEN tk
            ELSE IF new_ticket_number \in DOMAIN freed
            THEN MarkTicket(freed, new_ticket_number, TRUE)
            ELSE AddTicketRow(freed, new_ticket_number,
                              IF new_full_name # "" THEN new_full_name
                              ELSE assignment.full_name,
                              TRUE)
        pendingRow == [id |-> assignment_id,
                       ticket_number |-> IF changeTicket THEN new_ticket_number
                                         ELSE old_ticket_number,
                       full_name |-> IF new_full_name # "" THEN new_full_name
                                     ELSE assignment.full_name,
                       table_number |-> old_table_number]
    IN  IF assignment_id = 0 THEN Outcome("IdRequired", tk, asg, blk)
        ELSE IF found = {} THEN Outcome("NotFound", tk, asg, blk)
        ELSE IF changeTicket /\ Bound(asg, new_ticket_number)
        THEN Outcome("AlreadyAssigned", tk, asg, blk)
        ELSE IF changeTable /\ Occupancy(asg, new_table_number) >= SEATS_PER_TABLE
        THEN Outcome("TableFull", pendingTickets,
                     (asg \ {assignment}) \cup {pendingRow}, blk)
        ELSE Outcome("ok", pendingTickets,
                     (asg \ {assignment}) \cup
                         {[pendingRow EXCEPT !.table_number =
                              IF changeTable THEN new_table_number ELSE @]},
                     blk)

\* An edit that refuses a move to a blocked table, as assign_seats_api
\* refuses an entry for one.
edit_assignment_checking_block(tk, asg, blk, assignment_id, raw_ticket, raw_name, new_table_number) ==
    IF /\ \E a \in asg : a.id = assignment_id /\ a.table_number # new_table_number
       /\ new_table_number \in DOMAIN blk
    THEN Outcome("Blocked", tk, asg, blk)
    ELSE edit_assignment_keeping_pending(tk, asg, blk, assignment_id, raw_ticket,
                                         raw_name, new_table_number)

\* edit_assignment_api.  The handler changes the loaded rows as it goes and
\* commits at the end; a return before the commit leaves the changes to the
\* request teardown, which discards them.
edit_assignment(tk, asg, blk, assignment_id, raw_ticket, raw_name, new_table_number) ==
    LET new_ticket_number == Strip(raw_ticket)
        new_full_name == Strip(raw_name)
        found == {a \in asg : a.id = assignment_id}
        assignment == CHOOSE a \in found : TRUE
        old_ticket_number == assignment.ticket_number
        old_table_number == assignment.table_number
        changeTicket == new_ticket_number # "" /\ new_ticket_number # old_ticket_number
        changeTable == new_table_number # 0 /\ new_table_number # old_table_number
        freed == MarkTicket(tk, old_ticket_number, FALSE)
        pendingTickets ==
            IF ~changeTicket THEN tk
            ELSE IF new_ticket_number \in DOMAIN freed
            THEN MarkTicket(freed, new_ticket_number, TRUE)
            ELSE AddTicketRow(freed, new_ticket_number,
                              IF new_full_name # "" THEN new_full_name
                              ELSE assignment.full_name,
                              TRUE)
        new_table_count == Occupancy(asg, new_table_number)
        row == [id |-> assignment_id,
                ticket_number |-> IF changeTicket THEN new_ticket_number
                                  ELSE old_ticket_number,
                full_name |-> IF new_full_name # "" THEN new_full_name
                              ELSE assignment.full_name,
                table_number |-> IF changeTable THEN new_table_number
                                 ELSE old_table_number]
    IN  IF assignment_id = 0 THEN Outcome("IdRequired", tk, asg, blk)
        ELSE IF found = {} THEN Outcome("NotFound", tk, asg, blk)
        ELSE IF changeTicket /\ Bound(asg, new_ticket_number)
        THEN Outcome("AlreadyAssigned", tk, asg, blk)
        ELSE IF changeTable /\ new_table_count >= SEATS_PER_TABLE
        THEN Outcome("TableFull", tk, asg, blk)
        ELSE Outcome("ok", pendingTickets, (asg \ {assignment}) \cup {row}, blk)

EditOutcome(assignment_id, raw_ticket, raw_name, new_table_number) ==
    edit_assignment(tickets, assignments, blocked,
                    assignment_id, raw_ticket, raw_name, new_table_number)

EditAssignment(log, s, assignment_id, raw_ticket, raw_name, new_table_number) ==
    /\ require_admin(s)
    /\ \E out \in {EditOutcome(assignment_id, raw_ticket, raw_name, new_table_number)} :
          /\ Apply(log, "edit", out)
    /\ UNCHANGED session

\* add_ticket_api: commits without a broadcast.
AddTicketOutcome(raw_ticket, raw_name) ==
    LET ticket_number == Strip(raw_ticket)
        full_name == Strip(raw_name)
        ticket_num == IntOf(ticket_number)
    IN  IF ticket_number = "" \/ full_name = "" THEN Unchanged("MissingFields")
        ELSE IF ticket_num = -1 THEN Unchanged("NotANumber")
        ELSE IF ticket_num < 1 \/ ticket_num > 1000 THEN Unchanged("OutOfRange")
        ELSE IF ticket_number \in DOMAIN tickets THEN Unchanged("AlreadyExists")
        ELSE [Outcome("ok", AddTicketRow(tickets, ticket_number, full_name, FALSE),
                      assignments, blocked) EXCEPT !.emit = FALSE]

AddTicket(log, s, raw_ticket, raw_name) ==
    /\ require_admin(s)
    /\ \E out \in {AddTicketOutcome(raw_ticket, raw_name)} :
          /\ Apply(log, "add_ticket", out)
    /\ UNCHANGED session

----------------------------------------------------------------------------
\* Requests served concurrently.  assign_seats_api, manual_assign_api and
\* edit_assignment_api run in steps: the checks (the handler's reads), then
\* the writes with the commit, which the database runs as one transaction and
\* validates against the rows committed by then, then the broadcast.  The
\* other handlers run in one piece.

Checked(op, entries, row) ==
    [Idle EXCEPT !.pc = "checked", !.op = op, !.entries = entries, !.row = row]

\* A check that fails is answered at once; a request whose checks pass goes
\* on to its writes.
Check(log, s, op, check, entries, row) ==
    /\ flight[s].pc = "idle"
    /\ IF check.result = "ok"
       THEN /\ flight' = [flight EXCEPT ![s] = Checked(op, entries, row)]
            /\ UNCHANGED <<tickets, assignments, blocked, session, emitted, last>>
       ELSE /\ Served(log, op, check.result, check.at)
            /\ UNCHANGED <<tickets, assignments, blocked, session, emitted, flight>>

\* assign_seats_api up to the end of its first loop.
AssignCheck(log, s, entries) ==
    Check(log, s, "assign",
          assign_check(session[s], assignments, blocked, entries), entries, NoRow)

\* manual_assign_api up to its capacity check.
ManualCheck(log, s, table_number, ticket_number, full_name) ==
    /\ require_admin(s)
    /\ Check(log, s, "manual_assign",
             [result |-> ManualOutcome(table_number, ticket_number, full_name).result,
              at |-> 0],
             <<[ticket_number |-> ticket_number, full_name |-> full_name,
                table_number |-> table_number]>>,
             NoRow)

\* edit_assignment_api up to its capacity check: the row it loaded and the
\* columns it changes ("" and 0 for a column it leaves).
EditCheck(log, s, assignment_id, raw_ticket, raw_name, new_table_number) ==
    /\ require_admin(s)
    /\ LET result == EditOutcome(assignment_id, raw_ticket, raw_name,
                                 new_table_number).result
           row == CHOOSE a \in assignments : a.id = assignment_id
           changes ==
               [ticket_number |-> IF Strip(raw_ticket) # row.ticket_number
                                  THEN Strip(raw_ticket) ELSE "",
                full_name     |-> Strip(raw_name),
                table_number  |-> IF new_table_number # row.table_number
                                  THEN new_table_number ELSE 0]
       IN  Check(log, s, "edit", [result |-> result, at |-> 0],
                 IF result = "ok" THEN <<changes>> ELSE <<>>,
                 IF result = "ok" THEN row ELSE NoRow)

\* The INSERT of manual_assign_api, the ticket marked used or created.
manual_write(tk, asg, blk, e) ==
    LET work == CreateAssignments(tk, asg, <<e>>, 1)
    IN  IF work.raised
        THEN Outcome("Exception", tk, asg, blk)
        ELSE Outcome("ok",
                     IF e.ticket_number \in DOMAIN tk
                     THEN work.tickets
                     ELSE AddTicketRow(tk, e.ticket_number, e.full_name, TRUE),
                     work.assignments, blk)

\* The UPDATE of edit_assignment_api: the changed columns of the row with the
\* loaded id, the old ticket freed and the new one marked used or created.
\* It raises when the row is gone or another row holds the ticket number.
edit_write(tk, asg, blk, row, e) ==
    LET found == {a \in asg : a.id = row.id}
        cur == CHOOSE a \in found : TRUE
        new == [cur EXCEPT
                  !.ticket_number = IF e.ticket_number # "" THEN e.ticket_number ELSE @,
                  !.full_name = IF e.full_name # "" THEN e.full_name ELSE @,
                  !.table_number = IF e.table_number # 0 THEN e.table_number ELSE @]
        freed == MarkTicket(tk, row.ticket_number, FALSE)
        marked == IF e.ticket_number = "" THEN tk
                  ELSE IF e.ticket_number \in DOMAIN freed
                  THEN MarkTicket(freed, e.ticket_number, TRUE)
                  ELSE AddTicketRow(freed, e.ticket_number,
                                    IF e.full_name # "" THEN e.full_name
                                    ELSE row.full_name,
                                    TRUE)
    IN  IF found = {} THEN Outcome("Exception", tk, asg, blk)
        ELSE IF ~UniqueTicket(asg, row.id, new.ticket_number)
        THEN Outcome("Exception", tk, asg, blk)
        ELSE Outcome("ok", marked, (asg \ {cur}) \cup {new}, blk)

\* block_table_api up to its check of the existing block.
BlockCheck(log, s, table_number, reason) ==
    /\ require_admin(s)
    /\ Check(log, s, "block",
             [result |-> BlockOutcome(table_number, reason).result, at |-> 0],
             <<[table_number |-> table_number, reason |-> reason]>>,
             NoRow)

\* UniqueTable without the constraint.
NoUniqueTable(blk, t) == TRUE

\* The unique constraint on BlockedTable.table_number: the INSERT of a row
\* raises IntegrityError when a row holds the table number.
UniqueTable(blk, t) == t \notin DOMAIN blk

\* The INSERT of block_table_api.
block_write(tk, asg, blk, e) ==
    IF ~UniqueTable(blk, e.table_number)
    THEN Outcome("Exception", tk, asg, blk)
    ELSE Outcome("ok", tk, asg,
                 [t \in DOMAIN blk \cup {e.table_number} |->
                     IF t = e.table_number THEN e.reason ELSE blk[t]])

Written(f, tk, asg, blk) ==
    CASE f.op = "assign"        -> assign_write(tk, asg, blk, f.entries)
      [] f.op = "manual_assign" -> manual_write(tk, asg, blk, f.entries[1])
      [] f.op = "block"         -> block_write(tk, asg, blk, f.entries[1])
      [] OTHER                  -> edit_write(tk, asg, blk, f.row, f.entries[1])

\* The writes and the commit of a request whose checks passed.  With
\* stepwise, the queries of the broadcast are steps of their own; without,
\* the broadcast is computed with the commit.
Commit(log, s, stepwise, maxId) ==
    /\ flight[s].pc = "checked"
    /\ \E out \in {Written(flight[s], tickets, assignments, blocked)} :
          /\ IdsUpTo(out, maxId)
          /\ Served(log, flight[s].op, out.result, out.at)
          /\ Commits(out)
          /\ IF stepwise /\ out.result = "ok"
             THEN /\ flight' = [Observe(out.db) EXCEPT
                                  ![s] = [Idle EXCEPT !.pc = "committed",
                                                      !.seen = {Snapshot(out.db)}]]
                  /\ emitted' = emitted
             ELSE /\ flight' = [Observe(out.db) EXCEPT ![s] = Idle]
                  /\ emitted' = IF out.emit THEN Snapshot(out.db) ELSE emitted
    /\ UNCHANGED session

\* get_table_status: BlockedTable.query.all()
ReadBlocked(s) ==
    /\ flight[s].pc = "committed"
    /\ flight' = [flight EXCEPT ![s].pc = "reading", ![s].blk = blocked]
    /\ UNCHANGED <<tickets, assignments, blocked, session, emitted, last>>

\* get_table_status: TableAssignment.query.filter_by(table_number=table_num).all()
ReadTable(s) ==
    /\ flight[s].pc = "reading"
    /\ Len(flight[s].tables) < TOTAL_TABLES
    /\ flight' = [flight EXCEPT
                    ![s].tables =
                        Append(@, TableStatus(assignments, flight[s].blk, Len(@) + 1))]
    /\ UNCHANGED <<tickets, assignments, blocked, session, emitted, last>>

\* socketio.emit('table_update', {'tables': tables})
Emit(s) ==
    /\ flight[s].pc = "reading"
    /\ Len(flight[s].tables) = TOTAL_TABLES
    /\ emitted' = [t \in 1..TOTAL_TABLES |-> flight[s].tables[t]]
    /\ flight' = [flight EXCEPT ![s] = Idle]
    /\ UNCHANGED <<tickets, assignments, blocked, session, last>>

----------------------------------------------------------------------------
\* Requests of the model.

ValidateEntries ==
    {[ticket_number |-> n, full_name |-> "A"] : n \in RawTickets}
        \cup {[ticket_number |-> "1", full_name |-> " "]}

AssignEntries ==
    [ticket_number : TicketNumbers, full_name : {"A"}, table_number : 1..TOTAL_TABLES]

ManualInputs ==
    [table_number : TableInputs, ticket_number : TicketNumbers, full_name : {"A"}]
        \cup {[table_number |-> 1, ticket_number |-> "", full_name |-> "A"],
              [table_number |-> 1, ticket_number |-> "1", full_name |-> ""]}

EditInputs ==
    [id : IdInputs, ticket_number : RawTickets, full_name : {""},
     table_number : 0..TOTAL_TABLES]

AddTicketInputs ==
    {[ticket_number |-> n, full_name |-> "A"] : n \in RawTickets \cup {"0", "x"}}
        \cup {[ticket_number |-> "1", full_name |-> " "]}

Requests(log) ==
    \/ \E s \in Guests : Index(log, s)
    \/ \E s \in Guests, d \in SeqsUpTo(ValidateEntries, MaxBatch) :
          ValidateTickets(log, s, d)
    \/ \E s \in Guests, p \in SeqsUpTo(AssignEntries, MaxBatch) :
          AssignSeats(log, s, p)
    \/ \E s \in Sessions, r \in AdminRoutes : AdminRedirect(log, s, r)
    \/ \E s \in Sessions, id \in IdInputs : DeleteAnyAssignment(log, s, id)
    \/ \E s \in Sessions, t \in TableInputs, r \in Reasons : BlockTable(log, s, t, r)
    \/ \E s \in Sessions, t \in TableInputs : UnblockTable(log, s, t)
    \/ \E s \in Sessions : ResetDemo(log, s)
    \/ \E s \in Sessions, m \in ManualInputs :
          ManualAssign(log, s, m.table_number, m.ticket_number, m.full_name)
    \/ \E s \in Sessions, e \in EditInputs :
          EditAssignment(log, s, e.id, e.ticket_number, e.full_name, e.table_number)

Provisioning(log) ==
    \/ \E s \in Sessions : ResetTickets(log, s)
    \/ \E s \in Sessions, a \in AddTicketInputs :
          AddTicket(log, s, a.ticket_number, a.full_name)

\* The database as reset_tickets initialises it, the admin logged in on s2.
Init ==
    /\ tickets = ResetTicketsOutcome.db.tickets
    /\ assignments = {}
    /\ blocked = <<>>
    /\ session = [s \in Sessions |->
                    [EmptySession EXCEPT !.admin_logged_in = (s = "s2")]]
    /\ emitted = <<>>
    /\ last = Other
    /\ flight = [s \in Sessions |-> Idle]

\* Requests served one at a time, the responses to assign_seats_api recorded.
Next == Requests({"assign"})

Spec == Init /\ [][Next]_vars

\* The same with the responses to manual_assign_api recorded.
NextManual == Requests({"manual_assign"})

SpecManual == Init /\ [][NextManual]_vars

\* Requests served one at a time, with the routes that provision tickets; no
\* response is recorded.
NextLedger == Requests({}) \/ Provisioning({})

SpecLedger == Init /\ [][NextLedger]_vars

\* Requests served concurrently: single-entry batches from every client, a
\* ticket added now and then.
NextRace ==
    \/ \E s \in Sessions, d \in SeqsUpTo(ValidateEntries, 1) : ValidateTickets({}, s, d)
    \/ \E s \in Sessions, p \in SeqsUpTo(AssignEntries, 1) : AssignCheck({}, s, p)
    \/ \E s \in Sessions : Commit({}, s, FALSE, MaxId)
    \/ \E s \in Sessions, a \in AddTicketInputs :
          AddTicket({}, s, a.ticket_number, a.full_name)

SpecRace == Init /\ [][NextRace]_vars

\* The inputs of the requests that run in steps.
StepTickets == {"1", "2"}

StepValidateEntries ==
    {[ticket_number |-> n, full_name |-> "A"] : n \in StepTickets \cup {""}}

StepAssignEntries ==
    [ticket_number : StepTickets, full_name : {"A"}, table_number : 1..TOTAL_TABLES]

StepManualInputs ==
    [table_number : 0..TOTAL_TABLES, ticket_number : StepTickets, full_name : {"A"}]

StepEditInputs ==
    [id : 0..MaxStepId, ticket_number : StepTickets \cup {""}, full_name : {""},
     table_number : 0..TOTAL_TABLES]

\* Every handler that writes ticket numbers in steps (checks, then writes),
\* from both clients, with the other routes that change the tables.
NextConc ==
    \/ \E s \in Sessions, d \in SeqsUpTo(StepValidateEntries, 1) :
          ValidateTickets({}, s, d)
    \/ \E s \in Sessions, p \in SeqsUpTo(StepAssignEntries, MaxBatch) :
          AssignCheck({}, s, p)
    \/ \E s \in Sessions, m \in StepManualInputs :
          ManualCheck({}, s, m.table_number, m.ticket_number, m.full_name)
    \/ \E s \in Sessions, e \in StepEditInputs :
          EditCheck({}, s, e.id, e.ticket_number, e.full_name, e.table_number)
    \/ \E s \in Sessions : Commit({}, s, FALSE, MaxStepId)
    \/ \E s \in Sessions, r \in AdminRoutes : AdminRedirect({}, s, r)
    \/ \E s \in Sessions, id \in IdInputs : DeleteAnyAssignment({}, s, id)
    \/ \E s \in Sessions, t \in 0..1, r \in Reasons : BlockTable({}, s, t, r)
    \/ \E s \in Sessions, t \in 0..1 : UnblockTable({}, s, t)
    \/ \E s \in Sessions : ResetDemo({}, s)
    \/ Provisioning({})

SpecConc == Init /\ [][NextConc]_vars

\* The inputs of the admin while a guest's broadcast is computed.
MoveInputs ==
    [id : 1..MaxStepId, ticket_number : {""}, full_name : {""},
     table_number : 1..TOTAL_TABLES]

WalkInInputs ==
    [table_number : 1..TOTAL_TABLES, ticket_number : {"3"}, full_name : {"A"}]

\* The guest's batch in steps, the queries of its broadcast included; the
\* admin's requests in one piece.
NextBroadcast ==
    \/ \E s \in Guests, d \in SeqsUpTo(StepValidateEntries \ {[ticket_number |-> "", full_name |-> "A"]}, MaxBatch) :
          ValidateTickets({}, s, d)
    \/ \E s \in Guests, p \in SeqsUpTo(StepAssignEntries, MaxBatch) :
          AssignCheck({}, s, p)
    \/ \E s \in Guests : Commit({}, s, TRUE, MaxId)
    \/ \E s \in Guests : ReadBlocked(s)
    \/ \E s \in Guests : ReadTable(s)
    \/ \E s \in Guests : Emit(s)
    \/ \E s \in Sessions, id \in IdInputs : DeleteAnyAssignment({}, s, id)
    \/ \E s \in Sessions, t \in 0..1, r \in Reasons : BlockTable({}, s, t, r)
    \/ \E s \in Sessions, t \in 0..1 : UnblockTable({}, s, t)
    \/ \E s \in Sessions, m \in WalkInInputs :
          ManualAssign({}, s, m.table_number, m.ticket_number, m.full_name)
    \/ \E s \in Sessions, e \in MoveInputs :
          EditAssignment({}, s, e.id, e.ticket_number, e.full_name, e.table_number)

SpecBroadcast == Init /\ [][NextBroadcast]_vars

\* The reasons and the passwords the clients send while two admins block
\* tables.
BlockReasons == {"VIP", "Staff"}

Passwords == {ADMIN_PASSWORD, "guess"}

BlockLog == {"block"}

\* Two clients that log in as admin and block tables, the requests in steps
\* (the check, then the INSERT with the commit); unblock in one piece.
NextBlock ==
    \/ \E s \in Sessions, p \in Passwords : AdminLogin(BlockLog, s, p)
    \/ \E s \in Sessions : AdminLogout(BlockLog, s)
    \/ \E s \in Sessions : AdminRedirect(BlockLog, s, "block")
    \/ \E s \in Sessions, t \in TableInputs, r \in BlockReasons :
          BlockCheck(BlockLog, s, t, r)
    \/ \E s \in Sessions : Commit(BlockLog, s, FALSE, MaxId)
    \/ \E s \in Sessions, t \in TableInputs : UnblockTable(BlockLog, s, t)

SpecBlock == Init /\ [][NextBlock]_vars

\* Requests that name a table, with table numbers beyond TOTAL_TABLES.
RangeAssignEntries ==
    [ticket_number : TicketNumbers, full_name : {"A"},
     table_number : 1..(TOTAL_TABLES + 1)]

RangeEditInputs ==
    [id : IdInputs, ticket_number : {""}, full_name : {""},
     table_number : TableInputs]

\* Requests served one at a time, every route that takes a table number
\* offered the numbers 1..TOTAL_TABLES + 1.
NextRange ==
    \/ \E s \in Guests, d \in SeqsUpTo(ValidateEntries, 1) :
          ValidateTickets({}, s, d)
    \/ \E s \in Guests, p \in SeqsUpTo(RangeAssignEntries, 1) :
          AssignSeats({}, s, p)
    \/ \E s \in Sessions, id \in IdInputs : DeleteAnyAssignment({}, s, id)
    \/ \E s \in Sessions, t \in TableInputs, r \in Reasons : BlockTable({}, s, t, r)
    \/ \E s \in Sessions, t \in TableInputs : UnblockTable({}, s, t)
    \/ \E s \in Sessions, m \in ManualInputs :
          ManualAssign({}, s, m.table_number, m.ticket_number, m.full_name)
    \/ \E s \in Sessions, e \in RangeEditInputs :
          EditAssignment({}, s, e.id, e.ticket_number, e.full_name, e.table_number)

SpecRange == Init /\ [][NextRange]_vars

ValidateLog == {"validate"}

\* Requests served one at a time around the validation of tickets: tickets
\* are bound, released and provisioned; the responses to validate_tickets_api
\* are recorded.
NextValidate ==
    \/ \E s \in Guests : Index(ValidateLog, s)
    \/ \E s \in Guests, d \in SeqsUpTo(ValidateEntries, MaxBatch) :
          ValidateTickets(ValidateLog, s, d)
    \/ \E s \in Guests, p \in SeqsUpTo(AssignEntries, 1) :
          AssignSeats(ValidateLog, s, p)
    \/ \E s \in Sessions, id \in IdInputs :
          DeleteAnyAssignment(ValidateLog, s, id)
    \/ \E s \in Sessions, m \in WalkInInputs :
          ManualAssign(ValidateLog, s, m.table_number, m.ticket_number, m.full_name)
    \/ Provisioning(ValidateLog)

SpecValidate == Init /\ [][NextValidate]_vars

ResetLog == {"reset_demo"}

\* Requests served one at a time around reset_demo: tickets are bound by
\* guests and by the admin, provisioned, tables blocked; the responses to
\* reset_demo are recorded.
NextReset ==
    \/ \E s \in Guests, d \in SeqsUpTo(ValidateEntries, 1) :
          ValidateTickets(ResetLog, s, d)
    \/ \E s \in Guests, p \in SeqsUpTo(AssignEntries, 1) :
          AssignSeats(ResetLog, s, p)
    \/ \E s \in Sessions, m \in WalkInInputs :
          ManualAssign(ResetLog, s, m.table_number, m.ticket_number, m.full_name)
    \/ \E s \in Sessions, t \in TableInputs, r \in Reasons :
          BlockTable(ResetLog, s, t, r)
    \/ \E s \in Sessions : AdminRedirect(ResetLog, s, "reset_demo")
    \/ \E s \in Sessions : ResetDemo(ResetLog, s)
    \/ \E s \in Sessions, a \in AddTicketInputs :
          AddTicket(ResetLog, s, a.ticket_number, a.full_name)

SpecReset == Init /\ [][NextReset]_vars

\* Requests served one at a time, the responses to the admin's edit, delete,
\* block and unblock recorded.
AdminLog == {"edit", "delete", "block", "unblock"}

NextAdmin == Requests(AdminLog)

SpecAdmin == Init /\ [][NextAdmin]_vars

\* Requests served one at a time, the responses of every handler that emits
\* a table_update recorded; add_ticket_api commits without an emit.
EmitLog ==
    {"assign", "manual_assign", "edit", "delete", "block", "unblock",
     "reset_demo", "reset_tickets"}

NextEmit ==
    \/ \E s \in Guests, d \in SeqsUpTo(StepValidateEntries, 1) :
          ValidateTickets(EmitLog, s, d)
    \/ \E s \in Guests, p \in SeqsUpTo(StepAssignEntries, 1) :
          AssignSeats(EmitLog, s, p)
    \/ \E s \in Sessions, r \in AdminRoutes : AdminRedirect(EmitLog, s, r)
    \/ \E s \in Sessions, id \in IdInputs : DeleteAnyAssignment(EmitLog, s, id)
    \/ \E s \in Sessions, t \in 0..1, r \in Reasons : BlockTable(EmitLog, s, t, r)
    \/ \E s \in Sessions, t \in 0..1 : UnblockTable(EmitLog, s, t)
    \/ \E s \in Sessions : ResetDemo(EmitLog, s)
    \/ \E s \in Sessions : ResetTickets(EmitLog, s)
    \/ \E s \in Sessions, m \in WalkInInputs :
          ManualAssign(EmitLog, s, m.table_number, m.ticket_number, m.full_name)
    \/ \E s \in Sessions, e \in MoveInputs :
          EditAssignment(EmitLog, s, e.id, e.ticket_number, e.full_name, e.table_number)
    \/ \E s \in Sessions : AddTicket(EmitLog, s, "3", "A")

SpecEmit == Init /\ [][NextEmit]_vars

\* Clients that log in and out as admin and call the routes behind
\* require_admin, one request at a time, the responses of these routes
\* recorded.
GuardLog == AdminRoutes

NextGuard ==
    \/ \E s \in Sessions, p \in Passwords : AdminLogin(GuardLog, s, p)
    \/ \E s \in Sessions : AdminLogout(GuardLog, s)
    \/ \E s \in Guests, d \in SeqsUpTo(StepValidateEntries, 1) :
          ValidateTickets(GuardLog, s, d)
    \/ \E s \in Guests, p \in SeqsUpTo(StepAssignEntries, 1) :
          AssignSeats(GuardLog, s, p)
    \/ \E s \in Sessions, r \in AdminRoutes : AdminRedirect(GuardLog, s, r)
    \/ \E s \in Sessions, id \in IdInputs : DeleteAnyAssignment(GuardLog, s, id)
    \/ \E s \in Sessions, t \in 0..1, r \in Reasons : BlockTable(GuardLog, s, t, r)
    \/ \E s \in Sessions, t \in 0..1 : UnblockTable(GuardLog, s, t)
    \/ \E s \in Sessions : ResetDemo(GuardLog, s)
    \/ \E s \in Sessions : ResetTickets(GuardLog, s)
    \/ \E s \in Sessions, m \in WalkInInputs :
          ManualAssign(GuardLog, s, m.table_number, m.ticket_number, m.full_name)
    \/ \E s \in Sessions, e \in MoveInputs :
          EditAssignment(GuardLog, s, e.id, e.ticket_number, e.full_name, e.table_number)
    \/ \E s \in Sessions : AddTicket(GuardLog, s, "3", "A")

SpecGuard == Init /\ [][NextGuard]_vars

----------------------------------------------------------------------------
\* Properties

Current == Db(tickets, assignments, blocked)

Proposals == SeqsUpTo(AssignEntries, MaxBatch)

\* The number of entries of a proposal that target table t.
Proposed(p, t) == Cardinality({k \in 1..Len(p) : p[k].table_number = t})

\* The row the last INSERT created.
Newest == CHOOSE a \in assignments : \A b \in assignments : b.id <= a.id

\* C1: whatever the requests and however their steps interleave, no two
\* assignments hold the same ticket number.
C1_UniqueTicket ==
    \A a, b \in assignments : a.ticket_number = b.ticket_number => a = b

\* A request that passed its checks is about to write a ticket number that
\* another request has bound in the meantime.
C1_Witness ==
    \E s \in Sessions :
        /\ flight[s].pc = "checked"
        /\ flight[s].op = "assign"
        /\ \E k \in 1..Len(flight[s].entries) :
              Bound(assignments, flight[s].entries[k].ticket_number)

\* C2: served one at a time, the requests never leave a table with more than
\* SEATS_PER_TABLE assignments.
C2_TableCapacity ==
    \A t \in 1..TOTAL_TABLES : Occupancy(assignments, t) <= SEATS_PER_TABLE

\* C3: a batch whose entries for a table, added to the table's committed
\* assignments, exceed SEATS_PER_TABLE is rejected and commits nothing.
C3_BatchCapacity ==
    [][\A s \in Guests, p \in Proposals :
          (/\ \E t \in 1..TOTAL_TABLES :
                 Occupancy(assignments, t) + Proposed(p, t) > SEATS_PER_TABLE
           /\ AssignSeats({"assign"}, s, p))
          => /\ last'.result # "ok"
             /\ UNCHANGED <<tickets, assignments, blocked>>]_vars

\* An entry that fails its check: its ticket is not staged or is bound
\* already, its table is blocked or full.
EntryFails(s, e) ==
    \/ e.ticket_number \notin session[s].ticket_numbers
    \/ Bound(assignments, e.ticket_number)
    \/ e.table_number \in DOMAIN blocked
    \/ Occupancy(assignments, e.table_number) >= SEATS_PER_TABLE

\* C4: a batch with an entry that fails its check is rejected and leaves the
\* assignments, the tickets and the blocks as they were, wherever the entry is
\* in the batch.
C4_AllOrNothing ==
    \A s \in Guests, p \in Proposals :
        (\E k \in 1..Len(p) : EntryFails(s, p[k]))
        => /\ AssignOutcome(s, p).result # "ok"
           /\ AssignOutcome(s, p).db = Current

\* The second entry of a batch was rejected on a full table.
C4_Witness ==
    last = [op |-> "assign", result |-> "TableFull", at |-> 2]

\* C5: once the concurrent single-entry batches have all been answered, no
\* table holds more than SEATS_PER_TABLE assignments.
C5_ConcurrentCapacity ==
    (\A s \in Sessions : flight[s].pc = "idle")
    => \A t \in 1..TOTAL_TABLES :
          Cardinality({a \in assignments : a.table_number = t}) <= SEATS_PER_TABLE

\* A proposal every check but the block check lets through.
PassesButBlock(s, p) ==
    /\ session[s].guests
    /\ p # <<>>
    /\ \A k \in 1..Len(p) :
          /\ p[k].ticket_number \in session[s].ticket_numbers
          /\ ~Bound(assignments, p[k].ticket_number)
          /\ Occupancy(assignments, p[k].table_number) < SEATS_PER_TABLE
          /\ \A j \in 1..Len(p) : p[j].ticket_number = p[k].ticket_number => j = k

\* C6: a batch with an entry for a blocked table is rejected and commits
\* nothing (as Blocked when nothing else is wrong with it), and the same
\* batch is accepted once the table is unblocked.
C6_BlockedTable ==
    \A s \in Guests, p \in Proposals, t \in DOMAIN blocked :
        (\E k \in 1..Len(p) : p[k].table_number = t)
        => /\ AssignOutcome(s, p).result # "ok"
           /\ AssignOutcome(s, p).db = Current
           /\ PassesButBlock(s, p) => AssignOutcome(s, p).result = "Blocked"
           /\ (/\ PassesButBlock(s, p)
               /\ \A k \in 1..Len(p) : p[k].table_number \in DOMAIN blocked
                                          => p[k].table_number = t)
              => assign_seats(session[s], tickets, assignments,
                              unblock_table(tickets, assignments, blocked, t).db.blocked,
                              p).result = "ok"

\* A batch was rejected for its entry into a blocked table.
C6_Witness ==
    /\ last.op = "assign" /\ last.result = "Blocked" /\ last.at >= 1
    /\ blocked # <<>>

\* C7: for a ticket that is not bound and a table in range, manual_assign
\* succeeds exactly when the table has a free seat, blocked or not, and adds
\* the row; on a full table it fails and changes nothing.
C7_ManualAssign ==
    \A m \in ManualInputs :
        (/\ m.table_number \in 1..TOTAL_TABLES
         /\ m.ticket_number # "" /\ m.full_name # ""
         /\ ~Bound(assignments, m.ticket_number))
        => LET out == ManualOutcome(m.table_number, m.ticket_number, m.full_name)
               free == Occupancy(assignments, m.table_number) < SEATS_PER_TABLE
           IN  /\ out.result = "ok" <=> free
               /\ free => \E a \in out.db.assignments :
                             /\ a.ticket_number = m.ticket_number
                             /\ a.table_number = m.table_number
               /\ ~free => out.result = "TableFull" /\ out.db = Current

\* manual_assign has just put a guest at a blocked table.
C7_Witness ==
    /\ last.op = "manual_assign" /\ last.result = "ok"
    /\ Newest.table_number \in DOMAIN blocked

\* C8: an empty proposal, a session without staged guests, or a ticket that
\* is not among the session's staged ticket numbers: the batch is rejected
\* and commits nothing.
C8_StagedOnly ==
    \A s \in Guests, p \in Proposals :
        (\/ p = <<>>
         \/ ~session[s].guests
         \/ \E k \in 1..Len(p) : p[k].ticket_number \notin session[s].ticket_numbers)
        => /\ AssignOutcome(s, p).result
                \in {"NoAssignments", "SessionExpired", "InvalidTicket",
                     "TableFull", "Blocked"}
           /\ AssignOutcome(s, p).db = Current

\* With guests staged, a batch was rejected for its second ticket, which is
\* not staged.
C8_Witness ==
    /\ last = [op |-> "assign", result |-> "InvalidTicket", at |-> 2]
    /\ \E s \in Guests : session[s].guests /\ session[s].ticket_numbers # {}

\* C9: a ticket of the registry is used exactly when an assignment holds its
\* number.
C9_ConsumedIffBound ==
    \A n \in DOMAIN tickets : tickets[n].is_used <=> Bound(assignments, n)

\* C10: the snapshot a request emits is the snapshot of a state committed
\* since the request's own commit.
C10_SnapshotCommitted ==
    [][\A s \in Sessions : Emit(s) => emitted' \in flight[s].seen]_vars

\* C11: an edit that changes an assignment's ticket number to one another
\* assignment holds answers AlreadyAssigned and leaves every assignment and
\* every ticket as it was, whatever name and table the request also carries.
C11_EditBoundTicket ==
    \A a \in assignments, b \in assignments, raw \in RawTickets,
       name \in {"", "B"}, t \in TableInputs :
        (a # b /\ Strip(raw) = b.ticket_number /\ a.ticket_number # b.ticket_number)
        => /\ EditOutcome(a.id, raw, name, t).result = "AlreadyAssigned"
           /\ EditOutcome(a.id, raw, name, t).db = Current

\* An edit was refused for a ticket number that another assignment holds.
C11_Witness ==
    /\ last.op = "edit" /\ last.result = "AlreadyAssigned"
    /\ Cardinality(assignments) >= 2

\* The assignments without their ids.
Bindings(asg) ==
    {[ticket_number |-> a.ticket_number, full_name |-> a.full_name,
      table_number |-> a.table_number] : a \in asg}

\* The session of a client that has just validated the single ticket n.
StagedOnly(n) ==
    [guests |-> TRUE, ticket_numbers |-> {n}, admin_logged_in |-> FALSE]

\* Assignment a deleted, its ticket validated again and assigned again to the
\* same table.
Reacquired(a) ==
    LET freed == DeleteOutcome(a.id).db
        entry == [ticket_number |-> a.ticket_number, full_name |-> a.full_name,
                  table_number |-> a.table_number]
    IN  [validated |-> validate_tickets(freed.tickets, freed.assignments,
                                        <<entry>>).ok,
         out |-> assign_seats(StagedOnly(a.ticket_number), freed.tickets,
                              freed.assignments, freed.blocked, <<entry>>)]

\* C12: for every assignment of a ticket x to a table that is not blocked,
\* after the delete of the assignment the validation of x succeeds and the
\* batch that assigns x to the same table succeeds; x is then bound to the
\* table and used, and every other assignment and ticket is as before the
\* delete.
C12_ReleaseReacquire ==
    \A a \in assignments :
        a.table_number \notin DOMAIN blocked
        => /\ Reacquired(a).validated
           /\ Reacquired(a).out.result = "ok"
           /\ Bindings(Reacquired(a).out.db.assignments) = Bindings(assignments)
           /\ Reacquired(a).out.db.tickets = MarkTicket(tickets, a.ticket_number, TRUE)

\* C13: the delete of an assignment that exists removes that row alone and
\* marks its ticket unused in the same step, every other row, ticket and block
\* left as it was; the delete of an id that no row has answers NotFound and
\* changes nothing.
C13_DeleteFrame ==
    [][\A s \in Sessions, id \in IdInputs :
          (last'.op = "delete" /\ DeleteAnyAssignment(AdminLog, s, id))
          => LET found == {a \in assignments : a.id = id}
             IN  IF found # {}
                 THEN /\ last'.result = "ok"
                      /\ Cardinality(found) = 1
                      /\ assignments' = assignments \ found
                      /\ DOMAIN tickets' = DOMAIN tickets
                      /\ \A n \in DOMAIN tickets :
                            IF \E a \in found : a.ticket_number = n
                            THEN /\ ~tickets'[n].is_used
                                 /\ tickets'[n].full_name = tickets[n].full_name
                            ELSE tickets'[n] = tickets[n]
                      /\ blocked' = blocked
                 ELSE /\ id # 0 => last'.result = "NotFound"
                      /\ last'.result # "ok"
                      /\ UNCHANGED <<tickets, assignments, blocked>>]_vars

\* An assignment was deleted while other assignments and a block exist.
C13_Witness ==
    /\ last.op = "delete" /\ last.result = "ok"
    /\ assignments # {} /\ blocked # <<>>
    /\ \E n \in DOMAIN tickets : ~tickets[n].is_used /\ ~Bound(assignments, n)

\* The blocks of blk on the tables other than t.
OtherBlocks(blk, t) == [u \in DOMAIN blk \ {t} |-> blk[u]]

\* C14: the unblock of a table that is not blocked answers NotBlocked and
\* changes no block, assignment or ticket; after a block and an unblock of a
\* table (or the unblock of a blocked table), a second unblock of it answers
\* NotBlocked and the blocks of the other tables stay.
C14_UnblockIdempotent ==
    /\ \A t \in TableInputs \ DOMAIN blocked :
          /\ t # 0 => UnblockOutcome(t).result = "NotBlocked"
          /\ UnblockOutcome(t).result # "ok"
          /\ UnblockOutcome(t).db = Current
    /\ \A t \in 1..TOTAL_TABLES, r \in Reasons :
          LET held == IF t \in DOMAIN blocked THEN blocked
                      ELSE BlockOutcome(t, r).db.blocked
              first == unblock_table(tickets, assignments, held, t)
              second == unblock_table(tickets, assignments, first.db.blocked, t)
          IN  /\ t \in DOMAIN held
              /\ first.result = "ok"
              /\ first.db = Db(tickets, assignments, OtherBlocks(blocked, t))
              /\ second.result = "NotBlocked"
              /\ second.db = first.db

\* An unblock was refused for a table that is not blocked while another
\* table's block stands.
C14_Witness ==
    /\ last.op = "unblock" /\ last.result = "NotBlocked"
    /\ blocked # <<>>

\* C15: a block request for a table that is blocked answers AlreadyBlocked
\* and leaves the block with its reason; a block request whose INSERT finds
\* the table blocked by a request that committed after its check fails, and
\* the block that committed stays with its reason.
C15_OneBlock ==
    /\ [](\A t \in DOMAIN blocked, r \in BlockReasons :
            /\ BlockOutcome(t, r).result = "AlreadyBlocked"
            /\ BlockOutcome(t, r).db = Current)
    /\ [][\A s \in Sessions :
            (/\ flight[s].pc = "checked" /\ flight[s].op = "block"
             /\ flight[s].entries[1].table_number \in DOMAIN blocked
             /\ Commit(BlockLog, s, FALSE, MaxId))
            => /\ last'.result # "ok"
               /\ UNCHANGED <<tickets, assignments, blocked>>]_vars

\* A block request passed its check, another block of the table committed,
\* and the request's own INSERT was refused.
C15_Witness ==
    /\ last.op = "block" /\ last.result = "Exception"
    /\ blocked # <<>>

\* C16: no assignment and no block carries a table number outside
\* 1..TOTAL_TABLES (every route that takes a table number refuses one out of
\* range and changes nothing).
C16_TablesInRange ==
    /\ \A a \in assignments : a.table_number \in 1..TOTAL_TABLES
    /\ DOMAIN blocked \subseteq 1..TOTAL_TABLES

\* The batches offered to validate_tickets_api.
Batches == SeqsUpTo(ValidateEntries, MaxBatch)

\* Every entry of the batch has a ticket number and a name, no ticket number
\* occurs twice, and every ticket number is a ticket of the registry that is
\* not used (fields read as the handler reads them, trimmed).
Acceptable(d) ==
    /\ \A k \in 1..Len(d) :
          /\ Strip(d[k].ticket_number) # ""
          /\ Strip(d[k].full_name) # ""
          /\ Strip(d[k].ticket_number) \in DOMAIN tickets
          /\ ~tickets[Strip(d[k].ticket_number)].is_used
    /\ \A j, k \in 1..Len(d) :
          Strip(d[j].ticket_number) = Strip(d[k].ticket_number) => j = k

StagedBy(d) == {Strip(d[k].ticket_number) : k \in 1..Len(d)}

\* C17 as stated: validation accepts a batch exactly when every entry has a
\* ticket number and a name, no number occurs twice and every number is an
\* unused ticket of the registry; an accepted batch's numbers become the
\* session's staged set, a rejected batch leaves the staged set.
C17_ValidateIff ==
    [][\A s \in Guests, d \in Batches :
          ValidateTickets(ValidateLog, s, d)
          => /\ last'.result = "ok" <=> Acceptable(d)
             /\ session'[s].ticket_numbers =
                    IF Acceptable(d) THEN StagedBy(d)
                    ELSE session[s].ticket_numbers]_vars

\* C17 amended: validation accepts a batch exactly when the batch is not
\* empty, every entry has a ticket number and a name, no number occurs twice
\* and every number is an unused ticket of the registry; an accepted batch's
\* numbers become the session's staged set, a rejected batch leaves the
\* staged set.
C17_ValidateNonEmpty ==
    [][\A s \in Guests, d \in Batches :
          ValidateTickets(ValidateLog, s, d)
          => /\ last'.result = "ok" <=> (d # <<>> /\ Acceptable(d))
             /\ session'[s].ticket_numbers =
                    IF d # <<>> /\ Acceptable(d) THEN StagedBy(d)
                    ELSE session[s].ticket_numbers]_vars

\* A batch was rejected for a ticket number that occurs twice, and the
\* tickets staged before are still staged.
C17_Witness ==
    /\ last.op = "validate" /\ last.result = "DuplicateInRequest"
    /\ \E s \in Guests : session[s].ticket_numbers # {}

\* C18: a validation, accepted or rejected, leaves the assignments, the
\* tickets with their used flags and the blocks as they were and emits no
\* table_update.
C18_ValidatePure ==
    [][\A s \in Guests, d \in Batches :
          ValidateTickets(ValidateLog, s, d)
          => UNCHANGED <<tickets, assignments, blocked, emitted>>]_vars

\* A batch was accepted while assignments exist and a snapshot has been
\* emitted: the tickets it staged are still unused.
C18_Witness ==
    /\ last.op = "validate" /\ last.result = "ok"
    /\ assignments # {} /\ emitted # <<>>
    /\ \E s \in Guests :
          /\ session[s].ticket_numbers # {}
          /\ \A n \in session[s].ticket_numbers :
                n \in DOMAIN tickets /\ ~tickets[n].is_used

\* A list of table entries that describes the assignments and the blocks:
\* TOTAL_TABLES entries numbered 1..TOTAL_TABLES in order, each with the
\* count of the table's assignments, the seats left, and the full and blocked
\* flags.
Describes(tables, asg, blk) ==
    /\ DOMAIN tables = 1..TOTAL_TABLES
    /\ \A i \in DOMAIN tables :
          /\ tables[i].number = i
          /\ tables[i].occupied = Cardinality({a \in asg : a.table_number = i})
          /\ tables[i].available = tables[i].capacity - tables[i].occupied
          /\ tables[i].is_full <=> tables[i].occupied >= SEATS_PER_TABLE
          /\ tables[i].is_blocked <=> \E t \in DOMAIN blk : t = i

\* C19: get_table_status describes the committed assignments and blocks, and
\* with requests served one at a time so does the snapshot last emitted.
C19_Snapshot ==
    /\ Describes(get_table_status(assignments, blocked), assignments, blocked)
    /\ emitted # <<>> => Describes(emitted, assignments, blocked)

\* A snapshot was emitted for a state with a table over its capacity and a
\* blocked table.
C19_Witness ==
    /\ emitted = get_table_status(assignments, blocked)
    /\ \E t \in 1..TOTAL_TABLES : emitted[t].available < 0
    /\ \E t \in 1..TOTAL_TABLES : emitted[t].is_blocked

\* The request client s has in progress, run in one piece against the rows
\* (tk, asg, blk): the handler with its checks.
Whole(s, tk, asg, blk) ==
    LET f == flight[s]
        e == f.entries[1]
    IN  CASE f.op = "assign" -> assign_seats(session[s], tk, asg, blk, f.entries)
          [] f.op = "manual_assign" ->
                manual_assign(tk, asg, blk, e.table_number, e.ticket_number, e.full_name)
          [] OTHER ->
                edit_assignment(tk, asg, blk, f.row.id, e.ticket_number, e.full_name,
                                e.table_number)

\* The request of client s has passed its checks, and its checks pass against
\* the rows committed now.
Pending(s) ==
    /\ flight[s].pc = "checked"
    /\ flight[s].op \in {"assign", "manual_assign", "edit"}
    /\ flight[s].op = "edit" => flight[s].row \in assignments
    /\ Whole(s, tickets, assignments, blocked).result = "ok"

\* The rows two requests leave and whether each succeeded.
Ending(first, second) ==
    [tickets |-> second.db.tickets,
     bindings |-> Bindings(second.db.assignments),
     blocked |-> second.db.blocked,
     first |-> first.result = "ok",
     second |-> second.result = "ok"]

\* Both requests past their checks: a's writes commit, then b's.
Concurrently(a, b) ==
    LET first == Written(flight[a], tickets, assignments, blocked)
        second == Written(flight[b], first.db.tickets, first.db.assignments,
                          first.db.blocked)
    IN  Ending(first, second)

\* Request a served from its checks to its commit, then request b.
Serially(a, b) ==
    LET first == Whole(a, tickets, assignments, blocked)
        second == Whole(b, first.db.tickets, first.db.assignments, first.db.blocked)
    IN  Ending(first, second)

\* Serially(b, a), told in the order of Concurrently(a, b).
Reversed(a, b) ==
    LET first == Whole(b, tickets, assignments, blocked)
        second == Whole(a, first.db.tickets, first.db.assignments, first.db.blocked)
    IN  Ending(second, first)

\* C20: two requests (assign, manual assign, edit) that have both passed
\* their checks and commit one after the other leave the tickets, the
\* assignments and the blocks, and succeed or fail, as the two requests served
\* one at a time in one of the two orders.
C20_Serializable ==
    \A a, b \in Sessions :
        (a # b /\ Pending(a) /\ Pending(b))
        => \/ Concurrently(a, b) = Serially(a, b)
           \/ Concurrently(a, b) = Reversed(a, b)

\* C21: the commit of a batch never adds an assignment to a table that is
\* blocked when the batch commits, whenever the block was committed.
C21_NoAssignAfterBlock ==
    [][\A s \in Sessions :
          (/\ flight[s].pc = "checked" /\ flight[s].op = "assign"
           /\ Commit({}, s, FALSE, MaxStepId))
          => \A a \in assignments' \ assignments :
                a.table_number \notin DOMAIN blocked]_vars

TicketChanges(a) ==
    {e \in [ticket_number : RawTickets, full_name : {"", "B"},
            table_number : TableInputs] :
        /\ Strip(e.ticket_number) # ""
        /\ Strip(e.ticket_number) # a.ticket_number
        /\ ~Bound(assignments, Strip(e.ticket_number))
        /\ EditOutcome(a.id, e.ticket_number, e.full_name, e.table_number).result = "ok"}

\* C23: a successful edit of an assignment from ticket x to a ticket y that
\* no assignment holds leaves x unused and y used (y created used when the
\* registry does not have it) in the one outcome it commits; the row keeps
\* its id and, unless another table is given, its table; no other row and no
\* other ticket changes.
C23_EditTicket ==
    \A a \in assignments : \A e \in TicketChanges(a) :
        LET out == EditOutcome(a.id, e.ticket_number, e.full_name, e.table_number)
            x == a.ticket_number
            y == Strip(e.ticket_number)
            rows == {r \in out.db.assignments : r.id = a.id}
        IN  /\ Cardinality(rows) = 1
            /\ \A r \in rows :
                  /\ r.ticket_number = y
                  /\ e.table_number = 0 => r.table_number = a.table_number
                  /\ e.table_number # 0 => r.table_number = e.table_number
            /\ out.db.assignments \ rows = assignments \ {a}
            /\ DOMAIN out.db.tickets = DOMAIN tickets \cup {y}
            /\ out.db.tickets[y].is_used
            /\ x \in DOMAIN tickets => ~out.db.tickets[x].is_used
            /\ \A n \in DOMAIN tickets \ {x, y} : out.db.tickets[n] = tickets[n]
            /\ out.db.blocked = blocked

\* An edit succeeded; an assignment holds ticket 3 beside another assignment,
\* and a ticket of the registry is unused and unbound.
C23_Witness ==
    /\ last.op = "edit" /\ last.result = "ok"
    /\ Cardinality(assignments) >= 2
    /\ \E a \in assignments : a.ticket_number = "3" /\ tickets["3"].is_used
    /\ \E n \in DOMAIN tickets : ~tickets[n].is_used /\ ~Bound(assignments, n)

\* The registry as committed, and with one more ticket that is unused.
Registries ==
    {tickets, AddTicketRow(tickets, "4", "Guest 4", FALSE)}

\* C24: an edit that asks for a move to another table that is full fails and
\* leaves every row, ticket and block as committed before, whatever ticket
\* number and name it also carries (a ticket of the registry or one the edit
\* would create); it answers TableFull when its ticket number is one no
\* other assignment holds.
C24_EditAtomic ==
    \A tk \in Registries, a \in assignments, raw \in RawTickets \cup {"4"},
       name \in {"", "B"}, t \in TableInputs \ {0} :
        (t # a.table_number /\ Occupancy(assignments, t) >= SEATS_PER_TABLE)
        => LET out == edit_assignment(tk, assignments, blocked, a.id, raw, name, t)
           IN  /\ out.result \in {"TableFull", "AlreadyAssigned"}
               /\ (Strip(raw) = a.ticket_number \/ ~Bound(assignments, Strip(raw)))
                     => out.result = "TableFull"
               /\ out.db = Db(tk, assignments, blocked)

\* A move to a full table was refused.
C24_Witness ==
    /\ last.op = "edit" /\ last.result = "TableFull"
    /\ \E t \in 1..TOTAL_TABLES : Occupancy(assignments, t) >= SEATS_PER_TABLE
    /\ \E a \in assignments : Occupancy(assignments, a.table_number) < SEATS_PER_TABLE

\* The ticket numbers an edit of assignment a can carry without a refusal
\* for the ticket: none, its own, or one no assignment holds.
FreeTickets(a) ==
    {raw \in RawTickets :
        Strip(raw) = "" \/ Strip(raw) = a.ticket_number
            \/ ~Bound(assignments, Strip(raw))}

\* C25: the move of an assignment to another table that is blocked succeeds
\* when the table holds fewer than SEATS_PER_TABLE assignments and answers
\* TableFull when it holds that many or more; an edit that names no table or
\* the assignment's own table is never refused for capacity.
C25_EditIntoBlocked ==
    \A a \in assignments : \A raw \in FreeTickets(a), name \in {"", "B"} :
        /\ \A t \in DOMAIN blocked \ {a.table_number} :
              LET out == EditOutcome(a.id, raw, name, t)
              IN  /\ out.result =
                        IF Occupancy(assignments, t) < SEATS_PER_TABLE
                        THEN "ok" ELSE "TableFull"
                  /\ out.result = "ok"
                        => \E r \in out.db.assignments :
                              r.id = a.id /\ r.table_number = t
        /\ \A t \in {0, a.table_number} :
              EditOutcome(a.id, raw, name, t).result = "ok"

\* An edit succeeded and an assignment sits at a blocked table that still
\* has a free seat.
C25_Witness ==
    /\ last.op = "edit" /\ last.result = "ok"
    /\ \E a \in assignments :
          /\ a.table_number \in DOMAIN blocked
          /\ Occupancy(assignments, a.table_number) < SEATS_PER_TABLE

\* C26: a block or an unblock of table t, answered with success or not,
\* leaves every assignment and every ticket as it was and leaves the block
\* and the reason of every table other than t.
C26_BlockFrame ==
    [][\A s \in Sessions, t \in TableInputs :
          (/\ last'.op \in {"block", "unblock"}
           /\ \/ \E r \in Reasons : BlockTable(AdminLog, s, t, r)
              \/ UnblockTable(AdminLog, s, t))
          => /\ UNCHANGED <<tickets, assignments>>
             /\ OtherBlocks(blocked', t) = OtherBlocks(blocked, t)
             /\ last'.result # "ok" => blocked' = blocked]_vars

\* A block has just been committed on the one blocked table, and the guests
\* assigned to it are still there with their tickets used.
C26_Witness ==
    /\ last.op = "block" /\ last.result = "ok"
    /\ Cardinality(DOMAIN blocked) = 1
    /\ \E a \in assignments :
          /\ a.table_number \in DOMAIN blocked
          /\ a.ticket_number \in DOMAIN tickets
          /\ tickets[a.ticket_number].is_used

\* C27: manual_assign of a ticket that an assignment holds fails and changes
\* nothing (as AlreadyAssigned when its fields are present and its table in
\* range; the one row that holds the ticket gives the table named); of a
\* ticket the registry does not have, a success adds the ticket, used, with
\* the assignment in the one outcome it commits, and a failure adds no
\* ticket; an INSERT refused at the commit leaves the rows as committed.
C27_ManualContract ==
    \A m \in ManualInputs :
        LET out == ManualOutcome(m.table_number, m.ticket_number, m.full_name)
            wrote == manual_write(tickets, assignments, blocked, m)
            n == m.ticket_number
        IN  /\ Bound(assignments, n)
              => /\ out.result # "ok"
                 /\ out.db = Current
                 /\ Cardinality({a \in assignments : a.ticket_number = n}) = 1
                 /\ (m.table_number \in 1..TOTAL_TABLES /\ m.full_name # "")
                       => out.result = "AlreadyAssigned"
                 /\ wrote.result # "ok" /\ wrote.db = Current
            /\ (n # "" /\ n \notin DOMAIN tickets)
              => IF out.result = "ok"
                 THEN /\ DOMAIN out.db.tickets = DOMAIN tickets \cup {n}
                      /\ out.db.tickets[n] = [full_name |-> m.full_name, is_used |-> TRUE]
                      /\ \A x \in DOMAIN tickets : out.db.tickets[x] = tickets[x]
                      /\ \E a \in out.db.assignments \ assignments :
                            /\ a.ticket_number = n
                            /\ out.db.assignments = assignments \cup {a}
                 ELSE out.db = Current

\* manual_assign was refused for a ticket that an assignment holds, in a
\* registry with a ticket that an earlier manual_assign created.
C27_Witness ==
    /\ last.op = "manual_assign" /\ last.result = "AlreadyAssigned"
    /\ "3" \in DOMAIN tickets /\ tickets["3"].is_used
    /\ Bound(assignments, "3")

C29_LastSnapshotFinal ==
    (emitted # <<>> /\ \A s \in Sessions : flight[s].pc = "idle")
        => emitted = get_table_status(assignments, blocked)

\* The sum of occupied over the tables 1..t of a snapshot.
RECURSIVE Occupied(_, _)
Occupied(snap, t) == IF t = 0 THEN 0 ELSE snap[t].occupied + Occupied(snap, t - 1)

\* C30: the snapshot of the committed rows counts as many occupied seats as
\* there are assignments, and lists the ticket of every assignment among the
\* occupants of exactly one table.
C30_SnapshotAccounts ==
    LET snap == get_table_status(assignments, blocked)
    IN  /\ Occupied(snap, TOTAL_TABLES) = Cardinality(assignments)
        /\ \A a \in assignments :
              Cardinality({t \in DOMAIN snap :
                             \E o \in snap[t].occupants : o.ticket = a.ticket_number}) = 1

\* A request of client s to one of the routes behind require_admin.
AdminRequest(s) ==
    \/ \E r \in AdminRoutes : AdminRedirect(GuardLog, s, r)
    \/ \E id \in IdInputs : DeleteAnyAssignment(GuardLog, s, id)
    \/ \E t \in 0..1, r \in Reasons : BlockTable(GuardLog, s, t, r)
    \/ \E t \in 0..1 : UnblockTable(GuardLog, s, t)
    \/ ResetDemo(GuardLog, s)
    \/ ResetTickets(GuardLog, s)
    \/ \E m \in WalkInInputs :
          ManualAssign(GuardLog, s, m.table_number, m.ticket_number, m.full_name)
    \/ \E e \in MoveInputs :
          EditAssignment(GuardLog, s, e.id, e.ticket_number, e.full_name, e.table_number)
    \/ AddTicket(GuardLog, s, "3", "A")

====
